---- MODULE Spec2Model ----
(***************************************************************************)
(* Model of the messaging core: the SQL migration (identity resolver, row  *)
(* level security policies, conversation triggers, storage policies) and   *)
(* the Messages page's client reconciliation engine.                       *)
(***************************************************************************)
EXTENDS Integers, Sequences, FiniteSets, TLC

(***************************************************************************)
(* Bounds                                                                  *)
(***************************************************************************)
MaxMsgs == 2          \* rows the messages table may hold
MaxConvs == 2         \* conversation ids that may be allocated
MaxLocal == 2         \* length of the local part of a generated email
MaxObjects == 1       \* rows storage.objects may hold
MaxTime == 2          \* largest timestamp (ms) a message carries
MaxLoad == 2          \* messages the Local Message Store returns
MaxSends == 1         \* local sends of one session

(***************************************************************************)
(* Text values are sequences of characters.                                *)
(***************************************************************************)
KrakenSuffix == <<"@", "k", "r", "a", "k", "e", "n", ".", "w", "e", "b", "3">>

EndsWith(s, suf) ==
  /\ Len(s) >= Len(suf)
  /\ SubSeq(s, Len(s) - Len(suf) + 1, Len(s)) = suf

\* Position of the first '@' of s, or 0 when s holds none.
FirstAt(s) ==
  IF \E i \in 1..Len(s) : s[i] = "@"
  THEN CHOOSE i \in 1..Len(s) : s[i] = "@" /\ \A j \in 1..(i - 1) : s[j] # "@"
  ELSE 0

\* split_part(s, '@', 1): the text before the first '@', all of s without one.
split_part_1(s) ==
  IF FirstAt(s) = 0 THEN s ELSE SubSeq(s, 1, FirstAt(s) - 1)

\* email LIKE '%@kraken.web3%'
like_kraken_anywhere(email) ==
  \E i \in 1..Len(email) :
    /\ i + Len(KrakenSuffix) - 1 <= Len(email)
    /\ SubSeq(email, i, i + Len(KrakenSuffix) - 1) = KrakenSuffix

\* email LIKE '%@kraken.web3'
like_kraken(email) == EndsWith(email, KrakenSuffix)

get_user_wallet_address(email, uid) ==
  IF like_kraken(email) THEN split_part_1(email) ELSE uid

(***************************************************************************)
(* Principals of the durable store: two wallet users (synthetic email) and *)
(* one native user (identity = uid).                                       *)
(***************************************************************************)
Principals == {"pA", "pB", "pC"}

AuthEmail(p) ==
  CASE p = "pA" -> <<"a">> \o KrakenSuffix
    [] p = "pB" -> <<"b">> \o KrakenSuffix
    [] OTHER    -> <<"c", "@", "x">>

AuthUid(p) ==
  CASE p = "pA" -> <<"1">>
    [] p = "pB" -> <<"2">>
    [] OTHER    -> <<"c">>

Resolve(p) == get_user_wallet_address(AuthEmail(p), AuthUid(p))

Identities == {<<"a">>, <<"b">>, <<"c">>}
Receivers == {<<"a">>, <<"b">>}
Contents == {"hi", "yo"}
NULL == 0
\* The created_at a client stamps on a content: "hi" was written at 1, "yo" at 2.
StampOf(content) == IF content = "hi" THEN 1 ELSE 2

VARIABLES
  principal,       \* resolver: the current principal [email, uid]
  resolved,        \* resolver: results of the calls made for that principal
  conversations,   \* store: committed rows of table conversations
  messages,        \* store: committed rows of table messages, in insert order
  nextConvId,      \* store: next conversation id to generate
  tx,              \* store: the in-flight INSERT of each principal
  unbound,         \* store: positions of the messages whose INSERT gave no conversation_id
  attachments,     \* store: rows of table attachments (their message_id)
  objects,         \* store: rows of storage.objects
  lastOp,          \* store: the last statement that finished, and its outcome
  cMessages,       \* client: state messages of the Messages page
  cConversations,  \* client: state conversations (the derived summaries)
  initPc,          \* client: where initializeMessaging stands
  initializing,    \* client: state initializing
  listening,       \* client: the onMessage / onPresence listeners are registered
  onlineUsers,     \* client: state onlineUsers
  sending,         \* client: the handleSend awaiting the transport, if any
  now,             \* client: the last reading of Date.now()
  uuids,           \* client: how many ids crypto.randomUUID() has produced
  destroyed,       \* client: messagingService.destroy() has run
  lastEvent,       \* client: the callback that ran last (onMessage: what it was given)
  arrival,         \* two sessions given one set of messages: what each still awaits, and its list
  auth,            \* App: state isAuthenticated, walletAddress, userType, loading
  localStorage,    \* App: the items walletAddress, isAuthenticated, userType of localStorage
  checkAuth,       \* App: where checkAuth stands, and the items it has read
  logoutPc,        \* App: where logout stands
  lastAuth         \* App: the handler that ran last

clientVars == <<cMessages, cConversations, initPc, initializing, listening, onlineUsers,
                sending, now, uuids, destroyed, lastEvent>>

vars == <<principal, resolved, conversations, messages, nextConvId, tx, unbound,
          attachments, objects, lastOp, clientVars, arrival, auth, localStorage, checkAuth,
          logoutPc, lastAuth>>

resolverVars == <<principal, resolved>>
appVars == <<auth, localStorage, checkAuth, logoutPc, lastAuth>>
storageVars == <<attachments, objects>>
storeVars == <<conversations, messages, nextConvId, tx, unbound, attachments, objects, lastOp>>

\* The client before the page's effect has run.
NotSending == [pc |-> "idle", id |-> ""]
NoEvent == [kind |-> "none", id |-> "", known |-> FALSE, same |-> FALSE]
\* Two sessions that have been given nothing.
NoArrival == [left |-> <<{}, {}>>, list |-> <<<<>>, <<>>>>]

\* null, as localStorage.getItem and the App's state hold it.
null == "null"
\* localStorage after clear().
NoItems == [walletAddress |-> null, isAuthenticated |-> null, userType |-> null]
\* The App's state before its effect has run.
AppState ==
  /\ auth = [isAuthenticated |-> FALSE, walletAddress |-> null, userType |-> null,
             loading |-> TRUE]
  /\ checkAuth = [pc |-> "start", storedAddress |-> null, storedUserType |-> null]
  /\ logoutPc = "idle"
  /\ lastAuth = "none"
\* An App that is not looked at: nothing stored.
AppIdle == AppState /\ localStorage = NoItems

ClientInit ==
  /\ cMessages = <<>>
  /\ cConversations = <<>>
  /\ initPc = "start"
  /\ initializing = TRUE
  /\ listening = FALSE
  /\ onlineUsers = {}
  /\ sending = NotSending
  /\ now = 1
  /\ uuids = 0
  /\ destroyed = FALSE
  /\ lastEvent = NoEvent

(***************************************************************************)
(* Identity resolver                                                       *)
(***************************************************************************)
LocalParts == UNION {[1..n -> {"a", "@"}] : n \in 0..MaxLocal}
Domains == {KrakenSuffix, <<"@", "x">>, KrakenSuffix \o <<"x">>, <<>>}
Emails == {l \o d : l \in LocalParts, d \in Domains}
Uids == {<<"1">>, <<"2">>}
ResolverPrincipals == [email : Emails, uid : Uids]

ResolverInit ==
  /\ principal \in ResolverPrincipals
  /\ resolved = <<>>

\* No request is being resolved.
ResolverIdle ==
  /\ principal = [email |-> <<>>, uid |-> <<"1">>]
  /\ resolved = <<>>

\* One evaluation of get_user_wallet_address() for the current principal.
CallResolver ==
  /\ Len(resolved) < 2
  /\ resolved' = Append(resolved, get_user_wallet_address(principal.email, principal.uid))
  /\ UNCHANGED <<principal, storeVars, clientVars, arrival, appVars>>

\* A new request, by another principal.
NewRequest ==
  /\ resolved # <<>>
  /\ principal' \in ResolverPrincipals
  /\ resolved' = <<>>
  /\ UNCHANGED <<storeVars, clientVars, arrival, appVars>>

NextResolver == CallResolver \/ NewRequest

(***************************************************************************)
(* Durable store: tables, policies and triggers                            *)
(***************************************************************************)
Range(s) == {s[i] : i \in 1..Len(s)}

\* participants @> ARRAY[x]
ArrayContains(arr, x) == x \in Range(arr)

\* get_user_wallet_address() = ANY(participants)
IsParticipant(p, c) == Resolve(p) \in Range(c.participants)

conversations_select_policy(p, c) == IsParticipant(p, c)
conversations_insert_policy(p, c) == IsParticipant(p, c)
conversations_update_policy(p, old, new) == IsParticipant(p, old) /\ IsParticipant(p, new)

messages_select_policy(p, m) == Resolve(p) = m.sender \/ Resolve(p) = m.receiver
messages_insert_policy_party(p, m) == Resolve(p) = m.sender \/ Resolve(p) = m.receiver

messages_insert_policy(p, m) == Resolve(p) = m.sender
messages_update_policy(p, old, new) == Resolve(p) = old.sender /\ Resolve(p) = new.sender

\* EXISTS (SELECT 1 FROM messages m JOIN conversations c ON c.id = m.conversation_id
\*         WHERE m.id = attachments.message_id AND <caller> = ANY(c.participants))
attachments_policy(p, message_id, msgs, convs) ==
  \E i \in DOMAIN msgs : \E c \in convs :
    /\ c.id = msgs[i].conversation_id
    /\ i = message_id
    /\ IsParticipant(p, c)

attachments_select_policy(p, message_id, msgs, convs) ==
  attachments_policy(p, message_id, msgs, convs)
attachments_insert_policy(p, message_id, msgs, convs) ==
  attachments_policy(p, message_id, msgs, convs)

\* The policies on storage.objects, all TO authenticated.
attachments_bucket_select_policy(p, o) == o.bucket_id = "attachments"
attachments_bucket_insert_policy(p, o) == o.bucket_id = "attachments"
attachments_bucket_update_policy(p, o) == o.bucket_id = "attachments"
attachments_bucket_delete_policy(p, o) == o.bucket_id = "attachments"

\* The rows the pre-insert trigger's SELECT ... LIMIT 1 may return.
TriggerMatches(convs, row) ==
  {c \in convs : /\ ArrayContains(c.participants, row.sender)
                 /\ ArrayContains(c.participants, row.receiver)
                 /\ Len(c.participants) = 2}

\* The conversation the trigger's INSERT creates.
TriggerNewConversation(id, row) ==
  [id |-> id, participants |-> <<row.sender, row.receiver>>,
   last_message |-> row.content, last_message_time |-> row.created_at,
   updated_at |-> NULL, is_group |-> FALSE]

\* A rollup that keeps the latest-stamped message instead of the last inserted.
update_conversation_last_message_newest(c, row) ==
  IF c.id = row.conversation_id /\ row.created_at > c.last_message_time
  THEN [c EXCEPT !.last_message = row.content,
                 !.last_message_time = row.created_at,
                 !.updated_at = row.created_at]
  ELSE c

\* update_conversation_last_message(): the post-insert rollup of one row.
update_conversation_last_message(c, row) ==
  IF c.id = row.conversation_id
  THEN [c EXCEPT !.last_message = row.content,
                 !.last_message_time = row.created_at,
                 !.updated_at = row.created_at]
  ELSE c

Idle == [pc |-> "idle", given |-> NULL, row |-> <<>>, pending |-> {}]

NoOp == [kind |-> "none", principal |-> "pA", ok |-> TRUE, target |-> 0, result |-> {}]

ConvIds(convs) == {c.id : c \in convs}

MessageRows(convIds) ==
  {[sender |-> s, receiver |-> r, content |-> t, created_at |-> StampOf(t),
    conversation_id |-> k] :
     s \in Identities, r \in Receivers, t \in Contents, k \in convIds \cup {NULL}}

\* The rows a client may INSERT INTO conversations directly.
ConversationRows(id) ==
  {[id |-> id, participants |-> ps, last_message |-> "", last_message_time |-> NULL,
    updated_at |-> NULL, is_group |-> g] :
     ps \in {<<<<"b">>, <<"a">>>>}, g \in BOOLEAN}

InFlight == Cardinality({p \in Principals : tx[p].pc # "idle"})

StoreInit ==
  /\ conversations = {}
  /\ messages = <<>>
  /\ nextConvId = 1
  /\ tx = [p \in Principals |-> Idle]
  /\ unbound = {}
  /\ attachments = {}
  /\ objects = {}
  /\ lastOp = NoOp

\* INSERT INTO messages by principal p: the statement starts and the BEFORE
\* INSERT trigger update_conversation_on_message() runs on the new row.
InsertMessageBefore(p, row) ==
  /\ tx[p].pc = "idle"
  /\ Len(messages) + InFlight < MaxMsgs
  /\ IF row.conversation_id = NULL
     THEN \/ \E c \in TriggerMatches(conversations, row) :
               /\ tx' = [tx EXCEPT ![p] = [pc |-> "check", given |-> NULL,
                                           row |-> [row EXCEPT !.conversation_id = c.id],
                                           pending |-> {}]]
               /\ UNCHANGED nextConvId
          \/ /\ TriggerMatches(conversations, row) = {}
             /\ nextConvId <= MaxConvs
             /\ tx' = [tx EXCEPT ![p] = [pc |-> "check", given |-> NULL,
                                         row |-> [row EXCEPT !.conversation_id = nextConvId],
                                         pending |-> {TriggerNewConversation(nextConvId, row)}]]
             /\ nextConvId' = nextConvId + 1
     ELSE /\ tx' = [tx EXCEPT ![p] = [pc |-> "check", given |-> row.conversation_id,
                                      row |-> row, pending |-> {}]]
          /\ UNCHANGED nextConvId
  /\ UNCHANGED <<conversations, messages, unbound, storageVars, lastOp, resolverVars,
                 clientVars, arrival, appVars>>

\* The row passes WITH CHECK, is inserted, the AFTER INSERT trigger rolls the
\* conversation up, and the statement commits.
InsertMessageCommit(p) ==
  /\ tx[p].pc = "check"
  /\ messages_insert_policy(p, tx[p].row)
  /\ messages' = Append(messages, tx[p].row)
  /\ conversations' = {update_conversation_last_message(c, tx[p].row) :
                         c \in conversations \cup tx[p].pending}
  /\ unbound' = IF tx[p].given = NULL THEN unbound \cup {Len(messages) + 1} ELSE unbound
  /\ tx' = [tx EXCEPT ![p] = Idle]
  /\ lastOp' = [NoOp EXCEPT !.kind = "insert_message", !.principal = p,
                            !.target = Len(messages) + 1]
  /\ UNCHANGED <<nextConvId, storageVars, resolverVars, clientVars, arrival, appVars>>

\* The row fails WITH CHECK: the statement raises and everything it did,
\* the trigger's conversation included, is rolled back.
InsertMessageReject(p) ==
  /\ tx[p].pc = "check"
  /\ ~messages_insert_policy(p, tx[p].row)
  /\ tx' = [tx EXCEPT ![p] = Idle]
  /\ lastOp' = [NoOp EXCEPT !.kind = "insert_message", !.principal = p, !.ok = FALSE]
  /\ UNCHANGED <<conversations, messages, nextConvId, unbound, storageVars, resolverVars,
                 clientVars, arrival, appVars>>

\* INSERT INTO conversations by principal p, one statement.
InsertConversation(p, c) ==
  /\ nextConvId <= MaxConvs
  /\ IF conversations_insert_policy(p, c)
     THEN /\ conversations' = conversations \cup {c}
          /\ nextConvId' = nextConvId + 1
          /\ lastOp' = [NoOp EXCEPT !.kind = "insert_conversation", !.principal = p,
                                    !.target = c.id]
     ELSE /\ lastOp' = [NoOp EXCEPT !.kind = "insert_conversation", !.principal = p,
                                    !.ok = FALSE]
          /\ UNCHANGED <<conversations, nextConvId>>
  /\ UNCHANGED <<messages, tx, unbound, storageVars, resolverVars, clientVars, arrival, appVars>>

\* UPDATE conversations SET last_message, last_message_time WHERE id = c.id,
\* by principal p; a row that fails USING is not updated.
UpdateConversation(p, c, t) ==
  LET new == [c EXCEPT !.last_message = t, !.last_message_time = StampOf(t)]
  IN /\ c \in conversations
     /\ IF conversations_update_policy(p, c, new)
        THEN /\ conversations' = (conversations \ {c}) \cup {new}
             /\ lastOp' = [NoOp EXCEPT !.kind = "update_conversation", !.principal = p,
                                       !.target = c.id]
        ELSE /\ lastOp' = [NoOp EXCEPT !.kind = "update_conversation", !.principal = p,
                                       !.ok = FALSE, !.target = c.id]
             /\ UNCHANGED conversations
     /\ UNCHANGED <<messages, nextConvId, tx, unbound, storageVars, resolverVars,
                    clientVars, arrival, appVars>>

\* SELECT * FROM messages by principal p: the rows that pass USING.
SelectMessages(p) ==
  /\ lastOp' = [NoOp EXCEPT !.kind = "select_messages", !.principal = p,
                            !.result = {i \in DOMAIN messages :
                                          messages_select_policy(p, messages[i])}]
  /\ UNCHANGED <<conversations, messages, nextConvId, tx, unbound, storageVars, resolverVars,
                 clientVars, arrival, appVars>>

\* UPDATE messages SET sender, content WHERE id = i, by principal p. No
\* trigger fires on UPDATE.
UpdateMessage(p, i, s, t) ==
  LET new == [messages[i] EXCEPT !.sender = s, !.content = t]
  IN /\ i \in DOMAIN messages
     /\ IF messages_update_policy(p, messages[i], new)
        THEN /\ messages' = [messages EXCEPT ![i] = new]
             /\ lastOp' = [NoOp EXCEPT !.kind = "update_message", !.principal = p,
                                       !.target = i]
        ELSE /\ lastOp' = [NoOp EXCEPT !.kind = "update_message", !.principal = p,
                                       !.ok = FALSE, !.target = i]
             /\ UNCHANGED messages
     /\ UNCHANGED <<conversations, nextConvId, tx, unbound, storageVars, resolverVars,
                    clientVars, arrival, appVars>>

NextMessages ==
  \/ \E p \in Principals : \E row \in MessageRows(ConvIds(conversations)) :
       InsertMessageBefore(p, row)
  \/ \E p \in Principals : InsertMessageCommit(p)
  \/ \E p \in Principals : InsertMessageReject(p)

NextStore ==
  \/ \E p \in Principals : \E row \in MessageRows(ConvIds(conversations)) :
       InsertMessageBefore(p, row)
  \/ \E p \in Principals : InsertMessageCommit(p)
  \/ \E p \in Principals : InsertMessageReject(p)
  \/ \E p \in Principals : \E c \in ConversationRows(nextConvId) : InsertConversation(p, c)

NextAccess ==
  \/ \E p \in Principals : \E row \in MessageRows(ConvIds(conversations)) :
       InsertMessageBefore(p, row)
  \/ \E p \in Principals : InsertMessageCommit(p)
  \/ \E p \in Principals : InsertMessageReject(p)
  \/ \E p \in Principals : \E c \in conversations : \E t \in Contents :
       UpdateConversation(p, c, t)

NextPolicy ==
  \/ \E p \in Principals : \E row \in MessageRows(ConvIds(conversations)) :
       InsertMessageBefore(p, row)
  \/ \E p \in Principals : InsertMessageCommit(p)
  \/ \E p \in Principals : InsertMessageReject(p)
  \/ \E p \in Principals : SelectMessages(p)
  \/ \E p \in Principals : \E i \in DOMAIN messages : \E s \in Identities : \E t \in Contents :
       UpdateMessage(p, i, s, t)

InitStore == ResolverIdle /\ StoreInit /\ ClientInit /\ arrival = NoArrival /\ AppIdle
InitResolver == ResolverInit /\ StoreInit /\ ClientInit /\ arrival = NoArrival /\ AppIdle

SpecMessages == InitStore /\ [][NextMessages]_vars
SpecStore == InitStore /\ [][NextStore]_vars
SpecAccess == InitStore /\ [][NextAccess]_vars
SpecPolicy == InitStore /\ [][NextPolicy]_vars
SpecResolver == InitResolver /\ [][NextResolver]_vars

(***************************************************************************)
(* Properties of the durable store                                         *)
(***************************************************************************)
ParticipantSet(c) == Range(c.participants)

\* The step runs the pre-insert trigger of principal p.
TriggerStep(p) == tx[p].pc = "idle" /\ tx'[p].pc = "check"

\* The step finishes a statement (every step but a trigger's does).
StatementDone == ~(\E p \in Principals : TriggerStep(p))

\* C1: in every reachable state of the store, also after two concurrent
\* inserts between the same two identities that both ran the pre-insert
\* trigger before either committed, there is at most one non-group
\* conversation per unordered pair {sender, receiver}.
C1_OneConversationPerPair ==
  \A c1 \in conversations : \A c2 \in conversations :
    (~c1.is_group /\ ~c2.is_group /\ ParticipantSet(c1) = ParticipantSet(c2)) => c1 = c2

\* C2: when the trigger runs for a message (B, A) of sender B without conversation_id
\* and a message (A, B), A # B, inserted without conversation_id has already
\* committed, the new message is bound to that message's conversation and no
\* conversation is created.
C2_SamePairSameConversation ==
  [][\A p \in Principals :
       (TriggerStep(p) /\ tx'[p].given = NULL /\ messages_insert_policy(p, tx'[p].row)) =>
         \A i \in DOMAIN messages :
           (/\ i \in unbound
            /\ messages[i].sender # messages[i].receiver
            /\ messages[i].sender = tx'[p].row.receiver
            /\ messages[i].receiver = tx'[p].row.sender)
           => /\ tx'[p].row.conversation_id = messages[i].conversation_id
              /\ tx'[p].pending = {}]_vars

\* C3: right after a message M is inserted and bound to conversation C,
\* C.last_message = M.content and C.last_message_time = M.created_at,
\* whatever the created_at of the messages already stored in C.
C3_RollupFollowsInsert ==
  (lastOp.kind = "insert_message" /\ lastOp.ok) =>
    LET m == messages[lastOp.target]
    IN \A c \in conversations :
         c.id = m.conversation_id =>
           c.last_message = m.content /\ c.last_message_time = m.created_at

\* C3 witness: a message stamped earlier than one already stored in its
\* conversation has just been inserted.
C3_Witness ==
  /\ lastOp.kind = "insert_message" /\ lastOp.ok
  /\ \E c \in conversations : c.id = messages[lastOp.target].conversation_id
  /\ \E i \in DOMAIN messages :
       /\ i < lastOp.target
       /\ messages[i].conversation_id = messages[lastOp.target].conversation_id
       /\ messages[i].created_at > messages[lastOp.target].created_at

\* C4: when the trigger runs for a sender's message without conversation_id and no
\* conversation exists between its sender and receiver, it creates exactly
\* one conversation, participants = [sender, receiver], is_group = false,
\* last_message and last_message_time from the message, and binds the
\* message to it.
C4_CreatesConversation ==
  [][\A p \in Principals :
       (/\ TriggerStep(p)
        /\ tx'[p].given = NULL
        /\ messages_insert_policy(p, tx'[p].row)
        /\ ~\E c \in conversations :
              ParticipantSet(c) = {tx'[p].row.sender, tx'[p].row.receiver})
       => /\ Cardinality(tx'[p].pending) = 1
          /\ \A c \in tx'[p].pending :
               /\ c.participants = <<tx'[p].row.sender, tx'[p].row.receiver>>
               /\ ~c.is_group
               /\ c.last_message = tx'[p].row.content
               /\ c.last_message_time = tx'[p].row.created_at
               /\ c.id = tx'[p].row.conversation_id
               /\ c.id \notin ConvIds(conversations)
          /\ tx'[p].row.conversation_id # NULL]_vars

Rollup(c) == <<c.last_message, c.last_message_time, c.updated_at>>

\* C5: the rollup fields of a conversation change only by a statement of a
\* principal whose identity is one of its participants.
C5_RollupOnlyByParticipants ==
  [][\A c \in conversations : \A d \in conversations' :
       (d.id = c.id /\ Rollup(d) # Rollup(c)) => IsParticipant(lastOp'.principal, c)]_vars

\* C6: a read returns a message only to its sender or receiver, an insert is
\* applied only for the declared sender, an update only for the sender (of
\* the old and of the new row); a statement that fails its predicate leaves
\* the messages and conversations tables unchanged.
C6_MessagePolicies ==
  [][StatementDone =>
       LET op == lastOp'
           me == Resolve(op.principal)
       IN /\ op.kind = "select_messages" =>
               \A i \in op.result : me = messages[i].sender \/ me = messages[i].receiver
          /\ (op.kind = "insert_message" /\ op.ok) =>
               /\ me = messages'[op.target].sender
               /\ Len(messages') = Len(messages) + 1
          /\ (op.kind = "insert_message" /\ ~op.ok) =>
               /\ \E p \in Principals : tx[p].pc = "check" /\ tx'[p].pc = "idle"
                                          /\ me # tx[p].row.sender
          /\ (op.kind = "update_message" /\ op.ok) =>
               me = messages[op.target].sender /\ me = messages'[op.target].sender
          /\ (op.kind = "update_message" /\ ~op.ok) =>
               me # messages[op.target].sender \/ messages' = messages
          /\ ~op.ok => UNCHANGED <<messages, conversations>>]_vars

\* C6 witness: an insert under a foreign sender was rejected after its
\* trigger had prepared a conversation, and the tables hold no trace of it.
C6_Witness ==
  /\ lastOp.kind = "insert_message" /\ ~lastOp.ok
  /\ nextConvId = 2
  /\ conversations = {}
  /\ messages = <<>>

(***************************************************************************)
(* Attachments: table attachments and the bucket of storage.objects        *)
(***************************************************************************)
Buckets == {"attachments", "avatars"}

\* An object holds the file of the attachment of message message_id.
StorageObjects == [bucket_id : Buckets, message_id : DOMAIN messages, rev : {0}]

\* The messages a client of the storage specification sends.
StorageRows ==
  {[sender |-> s, receiver |-> <<"b">>, content |-> "hi", created_at |-> StampOf("hi"),
    conversation_id |-> NULL] : s \in Identities}

\* INSERT INTO attachments (message_id) by principal p.
InsertAttachment(p, i) ==
  /\ i \in DOMAIN messages
  /\ IF attachments_insert_policy(p, i, messages, conversations)
     THEN /\ attachments' = attachments \cup {i}
          /\ lastOp' = [NoOp EXCEPT !.kind = "insert_attachment", !.principal = p,
                                    !.target = i]
     ELSE /\ lastOp' = [NoOp EXCEPT !.kind = "insert_attachment", !.principal = p,
                                    !.ok = FALSE, !.target = i]
          /\ UNCHANGED attachments
  /\ UNCHANGED <<conversations, messages, nextConvId, tx, unbound, objects, resolverVars,
                 clientVars, arrival, appVars>>

\* Upload: INSERT INTO storage.objects by principal p.
StorageInsert(p, o) ==
  /\ Cardinality(objects) < MaxObjects
  /\ ~\E x \in objects : x.bucket_id = o.bucket_id /\ x.message_id = o.message_id
  /\ IF attachments_bucket_insert_policy(p, o)
     THEN /\ objects' = objects \cup {o}
          /\ lastOp' = [NoOp EXCEPT !.kind = "storage_insert", !.principal = p,
                                    !.target = o.message_id]
     ELSE /\ lastOp' = [NoOp EXCEPT !.kind = "storage_insert", !.principal = p,
                                    !.ok = FALSE, !.target = o.message_id]
          /\ UNCHANGED objects
  /\ UNCHANGED <<conversations, messages, nextConvId, tx, unbound, attachments, resolverVars,
                 clientVars, arrival, appVars>>

\* Overwrite: UPDATE storage.objects by principal p.
StorageUpdate(p, o) ==
  /\ o \in objects
  /\ IF attachments_bucket_update_policy(p, o)
     THEN /\ objects' = (objects \ {o}) \cup {[o EXCEPT !.rev = 1]}
          /\ lastOp' = [NoOp EXCEPT !.kind = "storage_update", !.principal = p,
                                    !.target = o.message_id]
     ELSE /\ lastOp' = [NoOp EXCEPT !.kind = "storage_update", !.principal = p,
                                    !.ok = FALSE, !.target = o.message_id]
          /\ UNCHANGED objects
  /\ UNCHANGED <<conversations, messages, nextConvId, tx, unbound, attachments, resolverVars,
                 clientVars, arrival, appVars>>

\* Remove: DELETE FROM storage.objects by principal p.
StorageDelete(p, o) ==
  /\ o \in objects
  /\ IF attachments_bucket_delete_policy(p, o)
     THEN /\ objects' = objects \ {o}
          /\ lastOp' = [NoOp EXCEPT !.kind = "storage_delete", !.principal = p,
                                    !.target = o.message_id]
     ELSE /\ lastOp' = [NoOp EXCEPT !.kind = "storage_delete", !.principal = p,
                                    !.ok = FALSE, !.target = o.message_id]
          /\ UNCHANGED objects
  /\ UNCHANGED <<conversations, messages, nextConvId, tx, unbound, attachments, resolverVars,
                 clientVars, arrival, appVars>>

NextStorage ==
  \/ \E p \in Principals : \E row \in StorageRows : InsertMessageBefore(p, row)
  \/ \E p \in Principals : InsertMessageCommit(p)
  \/ \E p \in Principals : InsertMessageReject(p)
  \/ \E p \in Principals : \E i \in DOMAIN messages : InsertAttachment(p, i)
  \/ \E p \in Principals : \E o \in StorageObjects : StorageInsert(p, o)
  \/ \E p \in Principals : \E o \in objects : StorageUpdate(p, o)
  \/ \E p \in Principals : \E o \in objects : StorageDelete(p, o)

SpecStorage == InitStore /\ [][NextStorage]_vars

\* The conversations that own the attachment of message i.
OwningConversations(i) == {c \in conversations : c.id = messages[i].conversation_id}

\* C7: an object of the attachments bucket is written, updated or deleted
\* only by a participant of the conversation owning the attachment's message.
C7_BucketWritesByParticipants ==
  (lastOp.kind \in {"storage_insert", "storage_update", "storage_delete"} /\ lastOp.ok) =>
    \E c \in OwningConversations(lastOp.target) : IsParticipant(lastOp.principal, c)

(***************************************************************************)
(* Client reconciliation engine: the Messages page                         *)
(***************************************************************************)
walletAddress == "a"
Peers == {"b", "c"}

\* Order of the strings that Array.prototype.sort() compares.
Rank(x) == CASE x = "a" -> 1 [] x = "b" -> 2 [] OTHER -> 3

Front(s) == SubSeq(s, 1, Len(s) - 1)
Last(s) == s[Len(s)]

\* The messages a peer or the Local Message Store may hand to the page.
InboundIds == {"m1", "m2"}
\* What the message with a given id says.
ContentOf(id) == IF id = "m1" THEN "p" ELSE "q"
InboundMessages ==
  {[id |-> i, sender |-> pr[1], receiver |-> pr[2], content |-> ContentOf(i),
    timestamp |-> ts, status |-> "delivered", encrypted |-> TRUE] :
     i \in InboundIds, pr \in {<<"b", "a">>, <<"b", "c">>}, ts \in 1..MaxTime}

\* crypto.randomUUID(): the n-th id it produces.
RandomUUID(n) == <<"u1", "u2", "u3">>[n]

Ids(list) == {list[i].id : i \in DOMAIN list}
DistinctIds(list) == \A i \in DOMAIN list : \A j \in DOMAIN list : list[i].id = list[j].id => i = j

\* loadMessagesFromLocal(): the persisted messages, in the order the store
\* returns them; ids are unique in the store.
LoadResults ==
  {l \in UNION {[1..n -> InboundMessages] : n \in 0..MaxLoad} : DistinctIds(l)}

\* A sort whose comparator is written the other way round: latest first.
InsertByTimestampDescending(sorted, x) ==
  LET k == Cardinality({i \in DOMAIN sorted : sorted[i].timestamp >= x.timestamp})
  IN SubSeq(sorted, 1, k) \o <<x>> \o SubSeq(sorted, k + 1, Len(sorted))

\* list.sort((a, b) => a.timestamp - b.timestamp): the sort is stable.
InsertByTimestamp(sorted, x) ==
  LET k == Cardinality({i \in DOMAIN sorted : sorted[i].timestamp <= x.timestamp})
  IN SubSeq(sorted, 1, k) \o <<x>> \o SubSeq(sorted, k + 1, Len(sorted))

RECURSIVE SortByTimestamp(_)
SortByTimestamp(list) ==
  IF list = <<>> THEN <<>> ELSE InsertByTimestamp(SortByTimestamp(Front(list)), Last(list))

\* new Date(ms).toISOString() and new Date(iso).getTime(), on whole milliseconds.
ToISOString(ms) == <<"iso", ms>>
GetTime(iso) == iso[2]

\* [sender, receiver].sort()
SortedPair(x, y) == IF Rank(y) < Rank(x) THEN <<y, x>> ELSE <<x, y>>

\* participants.join('-')
Join(ps) == <<ps[1], "-", ps[2]>>

\* A conversationMap whose later message always replaces the summary.
RECURSIVE ConversationMapLatestSeen(_)
ConversationMapLatestSeen(list) ==
  IF list = <<>> THEN <<>>
  ELSE LET map == ConversationMapLatestSeen(Front(list))
           message == Last(list)
           participants == SortedPair(message.sender, message.receiver)
           conversationId == Join(participants)
       IN IF ~\E i \in DOMAIN map : map[i].id = conversationId
          THEN Append(map, [id |-> conversationId, participants |-> participants,
                            last_message |-> message.content,
                            last_message_time |-> ToISOString(message.timestamp),
                            is_group |-> FALSE])
          ELSE [i \in DOMAIN map |->
                  IF map[i].id = conversationId
                  THEN [map[i] EXCEPT !.last_message = message.content,
                                      !.last_message_time = ToISOString(message.timestamp)]
                  ELSE map[i]]

\* The conversationMap after the forEach over messageList, in the Map's
\* insertion order.
RECURSIVE ConversationMap(_)
ConversationMap(list) ==
  IF list = <<>> THEN <<>>
  ELSE LET map == ConversationMap(Front(list))
           message == Last(list)
           participants == SortedPair(message.sender, message.receiver)
           conversationId == Join(participants)
       IN IF ~\E i \in DOMAIN map : map[i].id = conversationId
          THEN Append(map, [id |-> conversationId, participants |-> participants,
                            last_message |-> message.content,
                            last_message_time |-> ToISOString(message.timestamp),
                            is_group |-> FALSE])
          ELSE [i \in DOMAIN map |->
                  IF map[i].id = conversationId
                     /\ message.timestamp > GetTime(map[i].last_message_time)
                  THEN [map[i] EXCEPT !.last_message = message.content,
                                      !.last_message_time = ToISOString(message.timestamp)]
                  ELSE map[i]]

\* convs.sort((a, b) => time(b) - time(a)): stable, latest first.
InsertByRecency(sorted, x) ==
  LET k == Cardinality({i \in DOMAIN sorted :
                          GetTime(sorted[i].last_message_time) >= GetTime(x.last_message_time)})
  IN SubSeq(sorted, 1, k) \o <<x>> \o SubSeq(sorted, k + 1, Len(sorted))

RECURSIVE SortByRecency(_)
SortByRecency(list) ==
  IF list = <<>> THEN <<>> ELSE InsertByRecency(SortByRecency(Front(list)), Last(list))

\* A filter that lets every summary through.
IncludesAnyone(conv) == conv.participants # <<>>

IncludesWallet(conv) == walletAddress \in Range(conv.participants)

\* The list generateConversationsFromMessages(messageList) passes to setConversations.
generateConversationsFromMessages(messageList) ==
  SortByRecency(SelectSeq(ConversationMap(messageList), IncludesWallet))

\* An updater that appends whatever arrives.
OnMessageUpdaterUnchecked(prev, convs, message) ==
  LET newMessages == SortByTimestamp(Append(prev, message))
  IN [messages |-> newMessages,
      conversations |-> generateConversationsFromMessages(newMessages)]

\* An updater that discards only an exact copy of a listed message.
OnMessageUpdaterByValue(prev, convs, message) ==
  IF \E i \in DOMAIN prev : prev[i] = message
  THEN [messages |-> prev, conversations |-> convs]
  ELSE LET newMessages == SortByTimestamp(Append(prev, message))
       IN [messages |-> newMessages,
           conversations |-> generateConversationsFromMessages(newMessages)]

\* An updater that merges into the list its closure captured, the empty list
\* of the first render, instead of the current one.
OnMessageUpdaterFromClosure(prev, convs, message) ==
  IF \E i \in DOMAIN prev : prev[i].id = message.id
  THEN [messages |-> prev, conversations |-> convs]
  ELSE [messages |-> <<message>>,
        conversations |-> generateConversationsFromMessages(<<message>>)]

\* An updater that merges the message and leaves the summaries as they were.
OnMessageUpdaterStale(prev, convs, message) ==
  IF \E i \in DOMAIN prev : prev[i].id = message.id
  THEN [messages |-> prev, conversations |-> convs]
  ELSE [messages |-> SortByTimestamp(Append(prev, message)), conversations |-> convs]

\* The onMessage callback's updater: the next messages and, through its
\* call of generateConversationsFromMessages, the next conversations.
OnMessageUpdater(prev, convs, message) ==
  IF \E i \in DOMAIN prev : prev[i].id = message.id
  THEN [messages |-> prev, conversations |-> convs]
  ELSE LET newMessages == SortByTimestamp(Append(prev, message))
       IN [messages |-> newMessages,
           conversations |-> generateConversationsFromMessages(newMessages)]

\* The effect runs initializeMessaging up to its first await.
InitializeMessaging ==
  /\ initPc = "start"
  /\ ~destroyed
  /\ initPc' = "awaitInitialize"
  /\ initializing' = TRUE
  /\ lastEvent' = NoEvent
  /\ UNCHANGED <<cMessages, cConversations, listening, onlineUsers, sending, now, uuids,
                 destroyed, resolverVars, storeVars, arrival, appVars>>

\* messagingService.initialize resolves: on to the load.
InitializeResolved ==
  /\ initPc = "awaitInitialize"
  /\ initPc' = "awaitLoad"
  /\ lastEvent' = NoEvent
  /\ UNCHANGED <<cMessages, cConversations, initializing, listening, onlineUsers, sending,
                 now, uuids, destroyed, resolverVars, storeVars, arrival, appVars>>

\* messagingService.initialize or loadMessagesFromLocal rejects: catch, finally.
InitializeRejected ==
  /\ initPc \in {"awaitInitialize", "awaitLoad"}
  /\ initPc' = "done"
  /\ initializing' = FALSE
  /\ lastEvent' = NoEvent
  /\ UNCHANGED <<cMessages, cConversations, listening, onlineUsers, sending, now, uuids,
                 destroyed, resolverVars, storeVars, arrival, appVars>>

\* loadMessagesFromLocal resolves: the list is set, the summaries derived,
\* the listeners registered, and finally initializing is cleared.
LoadResolved(existingMessages) ==
  /\ initPc = "awaitLoad"
  /\ cMessages' = existingMessages
  /\ cConversations' = generateConversationsFromMessages(existingMessages)
  /\ listening' = TRUE
  /\ initPc' = "done"
  /\ initializing' = FALSE
  /\ lastEvent' = NoEvent
  /\ UNCHANGED <<onlineUsers, sending, now, uuids, destroyed, resolverVars, storeVars,
                 arrival, appVars>>

\* The transport delivers a message to the onMessage callback.
OnMessage(message) ==
  /\ listening
  /\ LET next == OnMessageUpdater(cMessages, cConversations, message)
     IN /\ cMessages' = next.messages
        /\ cConversations' = next.conversations
  /\ lastEvent' = [kind |-> "onMessage", id |-> message.id,
                   known |-> \E i \in DOMAIN cMessages : cMessages[i].id = message.id,
                   same |-> \E i \in DOMAIN cMessages : cMessages[i] = message]
  /\ UNCHANGED <<initPc, initializing, listening, onlineUsers, sending, now, uuids,
                 destroyed, resolverVars, storeVars, arrival, appVars>>

\* The transport reports the peers that are online.
OnPresence(users) ==
  /\ listening
  /\ onlineUsers' = users
  /\ lastEvent' = NoEvent
  /\ UNCHANGED <<cMessages, cConversations, initPc, initializing, listening, sending, now,
                 uuids, destroyed, resolverVars, storeVars, arrival, appVars>>

\* handleSend up to its await: the local message is appended, the list
\* sorted, the summaries derived.
HandleSend(targetRecipient, content, encryptionEnabled, t) ==
  /\ ~initializing
  /\ ~destroyed
  /\ sending.pc = "idle"
  /\ uuids < MaxSends
  /\ t >= now
  /\ LET localMessage == [id |-> RandomUUID(uuids + 1), sender |-> walletAddress,
                          receiver |-> targetRecipient, content |-> content,
                          timestamp |-> t, status |-> "sending",
                          encrypted |-> encryptionEnabled]
         newMessages == SortByTimestamp(Append(cMessages, localMessage))
     IN /\ cMessages' = newMessages
        /\ cConversations' = generateConversationsFromMessages(newMessages)
        /\ sending' = [pc |-> "await", id |-> localMessage.id]
        /\ lastEvent' = NoEvent
  /\ now' = t
  /\ uuids' = uuids + 1
  /\ UNCHANGED <<initPc, initializing, listening, onlineUsers, destroyed, resolverVars,
                 storeVars, arrival, appVars>>

\* A success path that, like the catch, marks the last entry of the list.
SendResolvedLast ==
  /\ sending.pc = "await"
  /\ cMessages' = [i \in DOMAIN cMessages |->
                     IF cMessages[i].id = Last(cMessages).id
                     THEN [cMessages[i] EXCEPT !.status = "sent"]
                     ELSE cMessages[i]]
  /\ sending' = NotSending
  /\ lastEvent' = [NoEvent EXCEPT !.kind = "sendResolved"]
  /\ UNCHANGED <<cConversations, initPc, initializing, listening, onlineUsers, now, uuids,
                 destroyed, resolverVars, storeVars, arrival, appVars>>

\* messagingService.sendMessage resolves: the local message becomes sent.
SendResolved ==
  /\ sending.pc = "await"
  /\ cMessages' = [i \in DOMAIN cMessages |->
                     IF cMessages[i].id = sending.id
                     THEN [cMessages[i] EXCEPT !.status = "sent"]
                     ELSE cMessages[i]]
  /\ sending' = NotSending
  /\ lastEvent' = [NoEvent EXCEPT !.kind = "sendResolved"]
  /\ UNCHANGED <<cConversations, initPc, initializing, listening, onlineUsers, now, uuids,
                 destroyed, resolverVars, storeVars, arrival, appVars>>

\* messagingService.sendMessage rejects: the catch marks the message whose
\* id is that of the last entry of the list as failed.
SendRejected ==
  /\ sending.pc = "await"
  /\ cMessages' = [i \in DOMAIN cMessages |->
                     IF cMessages[i].id = Last(cMessages).id
                     THEN [cMessages[i] EXCEPT !.status = "failed"]
                     ELSE cMessages[i]]
  /\ sending' = NotSending
  /\ lastEvent' = [NoEvent EXCEPT !.kind = "sendRejected"]
  /\ UNCHANGED <<cConversations, initPc, initializing, listening, onlineUsers, now, uuids,
                 destroyed, resolverVars, storeVars, arrival, appVars>>

\* The effect's cleanup: messagingService.destroy().
Destroy ==
  /\ initPc # "start"
  /\ ~destroyed
  /\ destroyed' = TRUE
  /\ listening' = FALSE
  /\ lastEvent' = NoEvent
  /\ UNCHANGED <<cMessages, cConversations, initPc, initializing, onlineUsers, sending, now,
                 uuids, resolverVars, storeVars, arrival, appVars>>

NextClient ==
  \/ InitializeMessaging
  \/ InitializeResolved
  \/ InitializeRejected
  \/ \E l \in LoadResults : LoadResolved(l)
  \/ \E m \in InboundMessages : OnMessage(m)
  \/ \E u \in {{}, {"b"}} : OnPresence(u)
  \/ \E r \in Peers : \E e \in BOOLEAN : \E ts \in 1..MaxTime : HandleSend(r, "r", e, ts)
  \/ SendResolved
  \/ SendRejected
  \/ Destroy

InitClient == ResolverIdle /\ StoreInit /\ ClientInit /\ arrival = NoArrival /\ AppIdle

SpecClient == InitClient /\ [][NextClient]_vars

(***************************************************************************)
(* The transport delivering a sent message back to its sender              *)
(***************************************************************************)
\* The id the transport gives a message it was asked to send: sendMessage is
\* handed the content, the recipient and the flag, not the id of localMessage.
TransportId == "e1"

\* The message of a local send as the transport delivers it.
EchoOf(local) == [local EXCEPT !.id = TransportId, !.status = "delivered"]

\* The transport hands a message of this wallet's send to the onMessage callback.
OnEcho ==
  \E i \in DOMAIN cMessages :
    /\ cMessages[i].id \in {RandomUUID(n) : n \in 1..uuids}
    /\ OnMessage(EchoOf(cMessages[i]))

NextEcho == NextClient \/ OnEcho

SpecEcho == InitClient /\ [][NextEcho]_vars

(***************************************************************************)
(* Two sessions of the page given the same messages in their own orders    *)
(***************************************************************************)
\* The local messages handleSend creates.
LocalMessages ==
  {[id |-> RandomUUID(1), sender |-> walletAddress, receiver |-> "b", content |-> "r",
    timestamp |-> ts, status |-> "sending", encrypted |-> TRUE] : ts \in 1..MaxTime}

ArrivalMessages == InboundMessages \cup LocalMessages

\* The sets of messages with distinct ids.
ArrivalSets ==
  {S \in SUBSET ArrivalMessages : \A x \in S : \A y \in S : x.id = y.id => x = y}

ArrivalInit ==
  \E S \in ArrivalSets : arrival = [left |-> <<S, S>>, list |-> <<<<>>, <<>>>>]

\* Session k is given m: a message of its own wallet through handleSend's
\* updater, any other through the onMessage callback's.
Arrive(k, m) ==
  /\ m \in arrival.left[k]
  /\ arrival' = [arrival EXCEPT
                   !.left[k] = @ \ {m},
                   !.list[k] = IF m.sender = walletAddress
                               THEN SortByTimestamp(Append(@, m))
                               ELSE OnMessageUpdater(@, <<>>, m).messages]
  /\ UNCHANGED <<resolverVars, storeVars, clientVars, appVars>>

NextArrival == \E k \in {1, 2} : \E m \in ArrivalMessages : Arrive(k, m)

InitArrival == ResolverIdle /\ StoreInit /\ ClientInit /\ ArrivalInit /\ AppIdle

SpecArrival == InitArrival /\ [][NextArrival]_vars

(***************************************************************************)
(* The App's authentication state                                          *)
(***************************************************************************)
Addresses == {null, "a"}
AuthFlags == {null, "true", "false"}
UserTypes == {null, "metamask", "email"}
Items == [walletAddress : Addresses, isAuthenticated : AuthFlags, userType : UserTypes]

\* JavaScript's truthiness of an item read from localStorage.
Truthy(x) == x # null

\* The state after setIsAuthenticated(false), setWalletAddress(null),
\* setUserType(null).
SignedOut(a) ==
  [a EXCEPT !.isAuthenticated = FALSE, !.walletAddress = null, !.userType = null]

\* The state after setIsAuthenticated(true), setWalletAddress(address),
\* setUserType(type).
SignedIn(a, address, type) ==
  [a EXCEPT !.isAuthenticated = TRUE, !.walletAddress = address, !.userType = type]

CheckAuthDone == [pc |-> "done", storedAddress |-> null, storedUserType |-> null]

\* The effect runs: checkAuth() up to its await of getSession, and the
\* subscription to onAuthStateChange.
CheckAuthStart ==
  /\ checkAuth.pc = "start"
  /\ checkAuth' = [checkAuth EXCEPT !.pc = "getSession"]
  /\ lastAuth' = "none"
  /\ UNCHANGED <<auth, localStorage, logoutPc, resolverVars, storeVars, clientVars, arrival>>

\* getSession resolves with or without a session: checkAuth reads the items
\* and takes one of its branches.
GetSessionResolved(session) ==
  /\ checkAuth.pc = "getSession"
  /\ lastAuth' = "checkAuth"
  /\ LET storedAddress == localStorage.walletAddress
         storedAuth == localStorage.isAuthenticated
         storedUserType == localStorage.userType
         stored == storedAuth = "true" /\ Truthy(storedAddress) /\ Truthy(storedUserType)
     IN IF session /\ stored
        THEN /\ auth' = [SignedIn(auth, storedAddress, storedUserType) EXCEPT
                           !.loading = FALSE]
             /\ checkAuth' = CheckAuthDone
             /\ UNCHANGED localStorage
        ELSE IF stored /\ storedUserType # "email"
        THEN /\ checkAuth' = [pc |-> "signIn", storedAddress |-> storedAddress,
                              storedUserType |-> storedUserType]
             /\ UNCHANGED <<auth, localStorage>>
        ELSE /\ localStorage' = NoItems
             /\ auth' = [SignedOut(auth) EXCEPT !.loading = FALSE]
             /\ checkAuth' = CheckAuthDone
  /\ UNCHANGED <<logoutPc, resolverVars, storeVars, clientVars, arrival>>

\* signInWithPassword resolves, with a session and no error or otherwise.
SignInResolved(ok) ==
  /\ checkAuth.pc = "signIn"
  /\ lastAuth' = "checkAuth"
  /\ IF ok
     THEN /\ auth' = [SignedIn(auth, checkAuth.storedAddress, checkAuth.storedUserType)
                        EXCEPT !.loading = FALSE]
          /\ UNCHANGED localStorage
     ELSE /\ localStorage' = NoItems
          /\ auth' = [SignedOut(auth) EXCEPT !.loading = FALSE]
  /\ checkAuth' = CheckAuthDone
  /\ UNCHANGED <<logoutPc, resolverVars, storeVars, clientVars, arrival>>

\* getSession or signInWithPassword throws: catch, finally.
CheckAuthThrows ==
  /\ checkAuth.pc \in {"getSession", "signIn"}
  /\ lastAuth' = "checkAuthThrew"
  /\ localStorage' = NoItems
  /\ auth' = [SignedOut(auth) EXCEPT !.loading = FALSE]
  /\ checkAuth' = CheckAuthDone
  /\ UNCHANGED <<logoutPc, resolverVars, storeVars, clientVars, arrival>>

\* A SIGNED_IN handler that takes whatever the items hold.
OnAuthStateChangeUnchecked(event, session) ==
  /\ checkAuth.pc # "start"
  /\ lastAuth' = event
  /\ IF event = "SIGNED_IN" /\ session
     THEN /\ auth' = SignedIn(auth, localStorage.walletAddress, localStorage.userType)
          /\ UNCHANGED localStorage
     ELSE IF event = "SIGNED_OUT"
     THEN /\ localStorage' = NoItems
          /\ auth' = SignedOut(auth)
     ELSE UNCHANGED <<auth, localStorage>>
  /\ UNCHANGED <<checkAuth, logoutPc, resolverVars, storeVars, clientVars, arrival>>

\* The callback given to supabase.auth.onAuthStateChange.
OnAuthStateChange(event, session) ==
  /\ checkAuth.pc # "start"
  /\ lastAuth' = event
  /\ IF event = "SIGNED_IN" /\ session
     THEN /\ IF Truthy(localStorage.walletAddress) /\ Truthy(localStorage.userType)
             THEN auth' = SignedIn(auth, localStorage.walletAddress, localStorage.userType)
             ELSE UNCHANGED auth
          /\ UNCHANGED localStorage
     ELSE IF event = "SIGNED_OUT"
     THEN /\ localStorage' = NoItems
          /\ auth' = SignedOut(auth)
     ELSE UNCHANGED <<auth, localStorage>>
  /\ UNCHANGED <<checkAuth, logoutPc, resolverVars, storeVars, clientVars, arrival>>

\* logout() up to its await of signOut.
LogoutStart ==
  /\ ~auth.loading
  /\ logoutPc = "idle"
  /\ logoutPc' = "signOut"
  /\ lastAuth' = "none"
  /\ UNCHANGED <<auth, localStorage, checkAuth, resolverVars, storeVars, clientVars, arrival>>

\* signOut resolves or throws (the throw is caught): the rest of logout().
LogoutFinish ==
  /\ logoutPc = "signOut"
  /\ logoutPc' = "idle"
  /\ lastAuth' = "logout"
  /\ localStorage' = NoItems
  /\ auth' = SignedOut(auth)
  /\ UNCHANGED <<checkAuth, resolverVars, storeVars, clientVars, arrival>>

\* The Login page stores the items of a login.
LoginStores(items) ==
  /\ ~auth.loading
  /\ ~auth.isAuthenticated
  /\ localStorage' = items
  /\ lastAuth' = "none"
  /\ UNCHANGED <<auth, checkAuth, logoutPc, resolverVars, storeVars, clientVars, arrival>>

\* checkAuth's own steps: the effect runs and its awaited calls settle.
CheckAuthSteps ==
  \/ CheckAuthStart
  \/ \E session \in BOOLEAN : GetSessionResolved(session)
  \/ \E ok \in BOOLEAN : SignInResolved(ok)
  \/ CheckAuthThrows

NextApp ==
  \/ CheckAuthStart
  \/ \E session \in BOOLEAN : GetSessionResolved(session)
  \/ \E ok \in BOOLEAN : SignInResolved(ok)
  \/ CheckAuthThrows
  \/ \E event \in {"SIGNED_IN", "SIGNED_OUT", "TOKEN_REFRESHED"} : \E session \in BOOLEAN :
       OnAuthStateChange(event, session)
  \/ LogoutStart
  \/ LogoutFinish
  \/ \E items \in Items : LoginStores(items)

InitApp ==
  /\ ResolverIdle /\ StoreInit /\ ClientInit /\ arrival = NoArrival
  /\ AppState
  /\ localStorage \in Items

\* The awaited calls of checkAuth settle, so checkAuth runs to its end.
SpecApp == InitApp /\ [][NextApp]_vars /\ WF_vars(CheckAuthSteps)

(***************************************************************************)
(* Properties of the identity resolver                                     *)
(***************************************************************************)
CountAt(s) == Cardinality({i \in DOMAIN s : s[i] = "@"})

\* r is the part of email before its first '@'.
IsPartBeforeAt(r, email) ==
  /\ "@" \notin Range(r)
  /\ Len(email) > Len(r)
  /\ SubSeq(email, 1, Len(r)) = r
  /\ email[Len(r) + 1] = "@"

\* C8: for a principal whose email ends in @kraken.web3 every call of the
\* resolver returns the part of the email before the '@' (for an email with
\* one '@': the text that the suffix @kraken.web3 follows), for every other
\* principal the uid; all calls for one principal return the same text.
C8_ResolverResult ==
  \A k \in DOMAIN resolved :
    /\ EndsWith(principal.email, KrakenSuffix) =>
         /\ IsPartBeforeAt(resolved[k], principal.email)
         /\ CountAt(principal.email) = 1 => resolved[k] \o KrakenSuffix = principal.email
    /\ ~EndsWith(principal.email, KrakenSuffix) => resolved[k] = principal.uid
    /\ resolved[k] = resolved[1]

\* C8 witness: the resolver has been called twice for a wallet address
\* under the reserved domain.
C8_Witness ==
  /\ Len(resolved) = 2
  /\ principal.email = <<"a", "a">> \o KrakenSuffix
  /\ resolved[2] = <<"a", "a">>

(***************************************************************************)
(* Properties of the client reconciliation engine                          *)
(***************************************************************************)
\* C9: after any sequence of load, inbound events and sends the message list
\* holds no two entries with the same id.
C9_NoDuplicateIds == DistinctIds(cMessages)

\* C9 witness: the load returned m1 and m2 (out of order, as only a load
\* leaves them), the transport then delivered m1, and one entry has id m1.
C9_Witness ==
  /\ lastEvent.kind = "onMessage" /\ lastEvent.id = "m1" /\ lastEvent.known
  /\ Len(cMessages) = 2
  /\ cMessages[1].timestamp > cMessages[2].timestamp
  /\ Cardinality({i \in DOMAIN cMessages : cMessages[i].id = "m1"}) = 1

\* C10: when the inbound handler is given a message whose id is in the list,
\* the list and the conversation summaries stay as they are.
C10_IdempotentMerge ==
  [][(lastEvent'.kind = "onMessage" /\ lastEvent'.id \in Ids(cMessages)) =>
       (cMessages' = cMessages /\ cConversations' = cConversations)]_vars

\* C10 witness: the handler was given a known id with other fields than the
\* listed message has.
C10_Witness ==
  /\ lastEvent.kind = "onMessage" /\ lastEvent.known /\ ~lastEvent.same
  /\ cConversations # <<>>

NonDecreasing(list) ==
  \A i \in 1..(Len(list) - 1) : list[i].timestamp <= list[i + 1].timestamp

StrictlyIncreasing(list) ==
  \A i \in 1..(Len(list) - 1) : list[i].timestamp < list[i + 1].timestamp

\* The step is the onMessage callback appending a message it did not know.
AcceptedInbound == lastEvent'.kind = "onMessage" /\ ~lastEvent'.known

\* The step is handleSend appending its local message.
LocalAppend == uuids' = uuids + 1

\* C11: after any sequence of mutations (the load in whatever order it
\* returns, inbound events, sends and their status updates) the message list
\* is non-decreasing by timestamp.
C11_SortInvariant == NonDecreasing(cMessages)

C13_ArrivalOrderIndependent ==
  (arrival.left[1] = {} /\ arrival.left[2] = {}) => arrival.list[1] = arrival.list[2]

\* The entry of the list with the given id.
EntryOf(list, id) == list[CHOOSE i \in DOMAIN list : list[i].id = id]

\* The step settles the send in flight: sendMessage resolved or rejected.
SendSucceeds == sending.pc = "await" /\ lastEvent'.kind = "sendResolved"
SendFails == sending.pc = "await" /\ lastEvent'.kind = "sendRejected"

\* C14: when sendMessage fails, the message of that send (the one with its
\* fresh id) is in the list with status failed and with the content and the
\* encrypted flag it had, whatever was merged while the send was in flight.
C14_FailedSendMarked ==
  [][SendFails =>
       /\ Len(cMessages') = Len(cMessages)
       /\ EntryOf(cMessages', sending.id) =
            [EntryOf(cMessages, sending.id) EXCEPT !.status = "failed"]]_vars

\* C15: when sendMessage succeeds, the message of that send goes from
\* sending to sent in place: same length, same ids at the same places, and
\* no other field of any entry differs.
C15_SentInPlace ==
  [][SendSucceeds =>
       /\ EntryOf(cMessages, sending.id).status = "sending"
       /\ Len(cMessages') = Len(cMessages)
       /\ \A i \in DOMAIN cMessages :
            cMessages'[i] = IF cMessages[i].id = sending.id
                            THEN [cMessages[i] EXCEPT !.status = "sent"]
                            ELSE cMessages[i]]_vars

\* C15 witness: a send has succeeded whose message is followed in the list
\* by a later one, and neither that one nor the first entry has changed.
C15_Witness ==
  /\ lastEvent.kind = "sendResolved"
  /\ Len(cMessages) = 3
  /\ cMessages[2].id = RandomUUID(1) /\ cMessages[2].status = "sent"
  /\ cMessages[1].status = "delivered" /\ cMessages[3].status = "delivered"

\* What makes two entries the same logical message.
SameMessage(x, y) ==
  /\ x.sender = y.sender /\ x.receiver = y.receiver
  /\ x.content = y.content /\ x.timestamp = y.timestamp

\* C16: a message created by a local send and the same message delivered
\* back by the transport carry the same id, so the list holds one entry for it.
C16_OneEntryPerMessage ==
  \A i \in DOMAIN cMessages : \A j \in DOMAIN cMessages :
    SameMessage(cMessages[i], cMessages[j]) => i = j

\* C17: once destroy() has been called, no event of the transport changes
\* the message list, the summaries or the online users, also when destroy()
\* came while initializeMessaging was awaiting initialize or the load.
C17_NoMutationAfterDestroy ==
  [][destroyed =>
       /\ lastEvent'.kind = "onMessage" =>
            (cMessages' = cMessages /\ cConversations' = cConversations)
       /\ onlineUsers' = onlineUsers]_vars

\* C18: when initialize fails the page still works from the local store:
\* however initialize settles, initializeMessaging goes on to the load (whose
\* result it puts in the list and derives the summaries from) and does not
\* finish without it.
C18_LoadsAfterInitializeFails ==
  [][(initPc = "awaitInitialize" /\ initPc' # "awaitInitialize") =>
       initPc' = "awaitLoad"]_vars

\* The unordered pair of a message, and the pairs occurring in a list.
PairOf(message) == {message.sender, message.receiver}
Pairs(list) == {PairOf(list[i]) : i \in DOMAIN list}

\* The positions of the messages of a pair, and those of its latest messages.
Group(list, pr) == {i \in DOMAIN list : PairOf(list[i]) = pr}
Latest(list, pr) ==
  {i \in Group(list, pr) : \A j \in Group(list, pr) : list[j].timestamp <= list[i].timestamp}

\* C19: the derivation groups the messages by unordered pair: the map holds
\* exactly one summary for each pair occurring in the list, none for any
\* other, and each summary shows the content and the time of a message of
\* its group with the greatest timestamp, whatever the order of the list.
C19_OneSummaryPerPair ==
  LET map == ConversationMap(cMessages)
  IN /\ \A pr \in Pairs(cMessages) :
          Cardinality({k \in DOMAIN map : Range(map[k].participants) = pr}) = 1
     /\ \A k \in DOMAIN map :
          /\ Range(map[k].participants) \in Pairs(cMessages)
          /\ \E i \in Latest(cMessages, Range(map[k].participants)) :
               /\ map[k].last_message = cMessages[i].content
               /\ GetTime(map[k].last_message_time) = cMessages[i].timestamp

\* C19 witness: three messages of two pairs, one pair with a message in
\* each direction, and the map holds two summaries.
C19_Witness ==
  /\ Len(cMessages) = 3
  /\ Cardinality(Pairs(cMessages)) = 2
  /\ \E i \in DOMAIN cMessages : \E j \in DOMAIN cMessages :
       /\ cMessages[i].sender = cMessages[j].receiver
       /\ cMessages[i].receiver = cMessages[j].sender
  /\ Len(ConversationMap(cMessages)) = 2

\* C20: the summaries of the page are those of the pairs that contain the
\* local identity and have a message in the list, no others, latest first.
C20_SummariesOfWallet ==
  /\ \A pr \in Pairs(cMessages) \cup {Range(cConversations[k].participants) :
                                          k \in DOMAIN cConversations} :
       (\E k \in DOMAIN cConversations : Range(cConversations[k].participants) = pr)
         <=> (walletAddress \in pr /\ pr \in Pairs(cMessages))
  /\ \A k \in 1..(Len(cConversations) - 1) :
       GetTime(cConversations[k].last_message_time)
         >= GetTime(cConversations[k + 1].last_message_time)

\* C20 witness: the list holds messages of two pairs of the wallet and of one
\* pair of others; the page shows two summaries, the later one first.
C20_Witness ==
  /\ Cardinality(Pairs(cMessages)) = 3
  /\ Len(cConversations) = 2
  /\ GetTime(cConversations[1].last_message_time)
       > GetTime(cConversations[2].last_message_time)

\* C22: after every completed mutation of the message list (load, accepted
\* inbound message, local append, status update) the conversations state is
\* the derivation of the current list.
C22_SummariesNeverStale ==
  cConversations = generateConversationsFromMessages(cMessages)

\* C22 witness: a send has failed after an inbound message was merged, and
\* the page shows the summaries of two conversations.
C22_Witness ==
  /\ lastEvent.kind = "sendRejected"
  /\ Len(cMessages) = 3
  /\ Len(cConversations) = 2
  /\ \E i \in DOMAIN cMessages : cMessages[i].status = "failed"

\* The step is the pre-insert trigger of p binding a message that came
\* without conversation_id, and that the insert policy lets in, to a
\* conversation that already exists.
BindsToExisting(p) ==
  /\ TriggerStep(p)
  /\ tx'[p].given = NULL
  /\ tx'[p].pending = {}
  /\ messages_insert_policy(p, tx'[p].row)

\* C23: a conversation the trigger binds such a message to has, as a set,
\* exactly the participants {sender, receiver}; a message to oneself is not
\* bound to a conversation with somebody else.
C23_BoundToExactPair ==
  [][\A p \in Principals :
       BindsToExisting(p) =>
         \A c \in conversations :
           c.id = tx'[p].row.conversation_id =>
             ParticipantSet(c) = {tx'[p].row.sender, tx'[p].row.receiver}]_vars

\* C24: the trigger binds such a message to no conversation whose is_group
\* is true, also not to a group of exactly the sender and the receiver.
C24_NeverBoundToGroup ==
  [][\A p \in Principals :
       BindsToExisting(p) =>
         \A c \in conversations :
           c.id = tx'[p].row.conversation_id => ~c.is_group]_vars

\* C25: the status of a listed message changes only from sending to sent or
\* to failed, and only for the message of the send that is being settled;
\* the status of every other message, such as a delivered one, stays.
C25_StatusTransitions ==
  [][\A i \in DOMAIN cMessages : \A j \in DOMAIN cMessages' :
       (cMessages[i].id = cMessages'[j].id /\ cMessages[i].status # cMessages'[j].status) =>
         /\ cMessages[i].status = "sending"
         /\ cMessages'[j].status \in {"sent", "failed"}
         /\ cMessages[i].id = sending.id]_vars

\* C26: every mutation works on the current list, so no message is lost: a
\* message that is in the list is still in it after any inbound merge, local
\* append or status update.
C26_NoLostMessage ==
  [][\A i \in DOMAIN cMessages :
       \E j \in DOMAIN cMessages' : cMessages'[j].id = cMessages[i].id]_vars

\* C26 witness: an inbound message was merged while a send awaits the
\* transport, and the list holds both it and the local message.
C26_Witness ==
  /\ lastEvent.kind = "onMessage" /\ ~lastEvent.known
  /\ sending.pc = "await"
  /\ \E i \in DOMAIN cMessages : cMessages[i].id = lastEvent.id
  /\ \E i \in DOMAIN cMessages :
       cMessages[i].id = sending.id /\ cMessages[i].status = "sending"

\* C27: in the App, isAuthenticated is true only with a walletAddress and a
\* userType that are not null; right after logout or a SIGNED_OUT event
\* isAuthenticated is false, walletAddress and userType are null and the
\* local storage is cleared; and loading becomes false in the end, whether
\* checkAuth succeeds or throws.
C27_AuthState ==
  /\ [](auth.isAuthenticated => (auth.walletAddress # null /\ auth.userType # null))
  /\ [](lastAuth \in {"logout", "SIGNED_OUT"} =>
          /\ ~auth.isAuthenticated
          /\ auth.walletAddress = null /\ auth.userType = null
          /\ localStorage = NoItems)
  /\ <>(~auth.loading)

\* C27 witness: checkAuth has run to its end and logout has just finished.
C27_Witness ==
  /\ lastAuth = "logout"
  /\ checkAuth.pc = "done"
  /\ ~auth.loading
  /\ ~auth.isAuthenticated
  /\ localStorage = NoItems

====
